---- MODULE Spec2Model ----
(***************************************************************************)
(* BPlayblast (src/main.py): the configuration setters and getters, the    *)
(* host application state they query, and the capture protocol `execute`.  *)
(***************************************************************************)
EXTENDS Integers, Sequences, FiniteSets, TLC

VARIABLES cfg, host, run, obs

vars == <<cfg, host, run, obs>>

(***************************************************************************)
(* Bounds of the model.                                                    *)
(***************************************************************************)
\* the host's render resolution is one of 320*k x 240*k, k in 1..MaxHostScale
MaxHostScale == 2
\* the host's range ends are shifted by 0..MaxShift frames
MaxShift == 1

(***************************************************************************)
(* Python values.  A number is an int or a float; a float [ty |-> "float", *)
(* v |-> n] stands for n + 0.5, so that int() has something to truncate.   *)
(***************************************************************************)
NONE == "None"

I(n) == [ty |-> "int", v |-> n]
F(n) == [ty |-> "float", v |-> n]
NoneVal == [ty |-> "none", v |-> 0]

\* Python's int(x) on a number: truncation toward zero.
int(x) == IF x.ty = "int" THEN x ELSE IF x.v >= 0 THEN I(x.v) ELSE I(x.v + 1)

\* isinstance(x, int)
isinstance_int(x) == x.ty = "int"

(***************************************************************************)
(* Arguments handed to the setters: a string, a 2-tuple, a 1-tuple or a    *)
(* bare number.                                                            *)
(***************************************************************************)
Str(s) == [kind |-> "str", s |-> s, a |-> NoneVal, b |-> NoneVal]
Pair(a, b) == [kind |-> "pair", s |-> "", a |-> a, b |-> b]
Single(a) == [kind |-> "single", s |-> "", a |-> a, b |-> NoneVal]
Scalar(a) == [kind |-> "scalar", s |-> "", a |-> a, b |-> NoneVal]
NoArg == [kind |-> "none", s |-> "", a |-> NoneVal, b |-> NoneVal]

(***************************************************************************)
(* Class constants.                                                        *)
(***************************************************************************)
DEFAULT_CAMERA == NONE
DEFAULT_RESOLUTION == "Render"
DEFAULT_FRAME_RANGE == "Render"
DEFAULT_CONTAINER == "mp4"
DEFAULT_ENCODER == "h264"
DEFAULT_H264_QUALITY == "High"
DEFAULT_H264_PRESET == "fast"
DEFAULT_IMAGE_QUALITY == 100
DEFAULT_PADDING == 4

RESOLUTION_LOOKUP ==
    ("Render" :> <<>>) @@ ("HD 1080" :> <<I(1920), I(1080)>>)
    @@ ("HD 720" :> <<I(1280), I(720)>>) @@ ("HD 540" :> <<I(960), I(540)>>)

FRAME_RANGE_PRESETS == {"Render", "Playback", "Animation"}

VIDEO_ENCODER_LOOKUP ==
    ("mov" :> {"h264"}) @@ ("mp4" :> {"h264"}) @@ ("Image" :> {"jpg", "png", "tif"})

H264_QUALITIES ==
    ("Very high" :> 18) @@ ("High" :> 20) @@ ("Medium" :> 23) @@ ("Low" :> 26)

H264_PRESETS == {"veryslow", "slow", "medium", "fast", "faster", "ultrafast"}

(***************************************************************************)
(* Host state the code queries.                                            *)
(***************************************************************************)
HostResolutions == {<<I(320 * k), I(240 * k)>> : k \in 1..MaxHostScale}
HostRenderRanges == {<<I(1), I(10 + s)>> : s \in 0..MaxShift}
\* playbackOptions returns floats: -1.5 .. 10.5 + s and 0.0 .. 20.5 + s
HostPlaybackRanges == {<<F(-2), F(10 + s)>> : s \in 0..MaxShift}
HostAnimationRanges == {<<I(0), F(20 + s)>> : s \in 0..MaxShift}
HostCameras == {"persp", "rendercam"}

(***************************************************************************)
(* Preset resolution.  Each returns [ok, val]: ok = FALSE is the           *)
(* RuntimeError (or TypeError) of the source.                              *)
(***************************************************************************)
preset_to_resolution(h, r) ==
    IF r.kind = "str" /\ r.s = "Render" THEN [ok |-> TRUE, val |-> h.render_res]
    ELSE IF r.kind = "str" /\ r.s \in DOMAIN RESOLUTION_LOOKUP
         THEN [ok |-> TRUE, val |-> RESOLUTION_LOOKUP[r.s]]
    ELSE [ok |-> FALSE, val |-> <<NoneVal, NoneVal>>]

preset_to_frame_range(h, r) ==
    IF r.kind = "str" /\ r.s = "Render" THEN [ok |-> TRUE, val |-> h.render_range]
    ELSE IF r.kind = "str" /\ r.s = "Playback"
         THEN [ok |-> TRUE, val |-> <<int(h.playback_range[1]), int(h.playback_range[2])>>]
    ELSE IF r.kind = "str" /\ r.s = "Animation"
         THEN [ok |-> TRUE, val |-> <<int(h.animation_range[1]), int(h.animation_range[2])>>]
    ELSE [ok |-> FALSE, val |-> <<NoneVal, NoneVal>>]

(***************************************************************************)
(* Setters, as functions of the configuration c, the host state h and the  *)
(* argument.  Each returns the configuration after the call, whether       *)
(* log_error was called and whether an exception left the call.            *)
(***************************************************************************)
Outcome(c, logged, raised) == [cfg |-> c, logged |-> logged, raised |-> raised]

set_resolution_result(c, h, r) ==
    LET p == preset_to_resolution(h, r)
        c1 == [c EXCEPT !.resolution_preset = IF p.ok THEN r.s ELSE NONE]
        width_height == IF p.ok /\ Len(p.val) = 2 THEN Pair(p.val[1], p.val[2])
                        ELSE IF p.ok THEN NoArg ELSE r
        valid_resolution == /\ width_height.kind = "pair"
                            /\ isinstance_int(width_height.a)
                            /\ isinstance_int(width_height.b)
    IN  IF valid_resolution
        THEN IF width_height.a.v <= 0 \/ width_height.b.v <= 0
             THEN Outcome(c1, TRUE, FALSE)
             ELSE Outcome([c1 EXCEPT !.width_height = <<width_height.a, width_height.b>>],
                          FALSE, FALSE)
        ELSE Outcome(c1, TRUE, FALSE)

\* a getter that answers with the pair cached by the setter
get_resolution_cached(c, h) == c.width_height

get_resolution_width_height(c, h) ==
    IF c.resolution_preset # NONE /\ c.resolution_preset # ""
    THEN preset_to_resolution(h, Str(c.resolution_preset)).val
    ELSE c.width_height

\* [ok, val]: ok = FALSE is the None returned after the logged error.
resolve_frame_range(h, frame_range) ==
    IF frame_range.kind = "pair"
    THEN [ok |-> TRUE, val |-> <<frame_range.a, frame_range.b>>]
    ELSE IF frame_range.kind = "single"
    THEN [ok |-> FALSE, val |-> <<NoneVal, NoneVal>>]
    ELSE preset_to_frame_range(h, frame_range)

set_frame_range_result(c, h, frame_range) ==
    LET resolved == resolve_frame_range(h, frame_range)
    IN  IF ~resolved.ok
        THEN Outcome(c, TRUE, FALSE)
        ELSE Outcome([c EXCEPT
                        !.frame_range_preset =
                            IF frame_range.kind = "str" /\ frame_range.s \in FRAME_RANGE_PRESETS
                            THEN frame_range.s ELSE NONE,
                        !.start_frame = resolved.val[1],
                        !.end_frame = resolved.val[2]],
                     FALSE, FALSE)

get_start_end_frame(c, h) ==
    IF c.frame_range_preset # NONE /\ c.frame_range_preset # ""
    THEN preset_to_frame_range(h, Str(c.frame_range_preset)).val
    ELSE <<c.start_frame, c.end_frame>>

set_encoding_result(c, container_format, encoder) ==
    IF container_format \notin DOMAIN VIDEO_ENCODER_LOOKUP
    THEN Outcome(c, TRUE, TRUE)       \* logged, then KeyError at the table lookup
    ELSE Outcome([c EXCEPT !.container_format = container_format, !.encoder = encoder],
                 encoder \notin VIDEO_ENCODER_LOOKUP[container_format], FALSE)

\* a setter that rejects an unknown camera without touching the stored one
set_camera_keeps_previous(c, h, camera) ==
    IF camera # NONE /\ camera # "" /\ camera \notin h.cameras
    THEN Outcome(c, TRUE, FALSE)
    ELSE Outcome([c EXCEPT !.camera = camera], FALSE, FALSE)

set_camera_result(c, h, camera) ==
    IF camera # NONE /\ camera # "" /\ camera \notin h.cameras
    THEN Outcome([c EXCEPT !.camera = NONE], TRUE, FALSE)
    ELSE Outcome([c EXCEPT !.camera = camera], FALSE, FALSE)

set_h264_settings_result(c, quality, preset) ==
    IF quality \notin DOMAIN H264_QUALITIES THEN Outcome(c, TRUE, FALSE)
    ELSE IF preset \notin H264_PRESETS THEN Outcome(c, TRUE, FALSE)
    ELSE Outcome([c EXCEPT !.h264_quality = quality, !.h264_preset = preset], FALSE, FALSE)

\* 0 < quality <= 100 on a Python value: a float n + 0.5 passes for
\* 0 <= n <= 99; a value that is no number cannot be compared with 0 and
\* raises TypeError.
set_image_settings_result(c, quality) ==
    IF quality.ty = "int"
    THEN IF 0 < quality.v /\ quality.v <= 100
         THEN Outcome([c EXCEPT !.image_quality = quality], FALSE, FALSE)
         ELSE Outcome(c, TRUE, FALSE)
    ELSE IF quality.ty = "float"
    THEN IF 0 <= quality.v /\ quality.v < 100
         THEN Outcome([c EXCEPT !.image_quality = quality], FALSE, FALSE)
         ELSE Outcome(c, TRUE, FALSE)
    ELSE Outcome(c, FALSE, TRUE)

(***************************************************************************)
(* What the last operation did: its name and argument, whether it called   *)
(* log_error, whether an exception left it, what a getter returned, and    *)
(* (for execute) the trace of the call.                                    *)
(***************************************************************************)
NoRet == <<NoneVal, NoneVal>>
NoEx == [stage |-> "none"]

Observe(op, arg, arg2, logged, raised, ret) ==
    [op |-> op, arg |-> arg, arg2 |-> arg2, logged |-> logged, raised |-> raised,
     ret |-> ret, ex |-> NoEx]

\* execute's locals while a call is in progress
RunIdle == [pc |-> "idle"]

(***************************************************************************)
(* Construction: __init__ calls the setters with the class defaults, in a  *)
(* freshly opened scene of the host.                                       *)
(***************************************************************************)
HostInit ==
    [render_res |-> <<I(320), I(240)>>,
     render_range |-> <<I(1), I(10)>>,
     playback_range |-> <<F(-2), F(10)>>,
     animation_range |-> <<I(0), F(20)>>,
     cameras |-> {"persp"},
     active_camera |-> "persp"]

Unset ==
    [camera |-> NONE, resolution_preset |-> NONE, width_height |-> NoRet,
     frame_range_preset |-> NONE, start_frame |-> NoneVal, end_frame |-> NoneVal,
     container_format |-> NONE, encoder |-> NONE,
     h264_quality |-> NONE, h264_preset |-> NONE, image_quality |-> NoneVal]

init(h) ==
    LET c1 == set_camera_result(Unset, h, DEFAULT_CAMERA).cfg
        c2 == set_resolution_result(c1, h, Str(DEFAULT_RESOLUTION)).cfg
        c3 == set_frame_range_result(c2, h, Str(DEFAULT_FRAME_RANGE)).cfg
        c4 == set_encoding_result(c3, DEFAULT_CONTAINER, DEFAULT_ENCODER).cfg
        c5 == set_h264_settings_result(c4, DEFAULT_H264_QUALITY, DEFAULT_H264_PRESET).cfg
    IN  set_image_settings_result(c5, I(DEFAULT_IMAGE_QUALITY)).cfg

Init ==
    /\ host = HostInit
    /\ cfg = init(HostInit)
    /\ run = RunIdle
    /\ obs = Observe("__init__", NoArg, "", FALSE, FALSE, NoRet)

(***************************************************************************)
(* The setters and getters as operations.  None runs while an execute call *)
(* is in progress: execute blocks the host's only thread.                  *)
(***************************************************************************)
Call(op, arg, arg2, out) ==
    /\ run.pc = "idle"
    /\ cfg' = out.cfg
    /\ obs' = Observe(op, arg, arg2, out.logged, out.raised, NoRet)
    /\ UNCHANGED <<host, run>>

set_resolution(resolution) ==
    Call("set_resolution", resolution, "", set_resolution_result(cfg, host, resolution))

set_frame_range(frame_range) ==
    Call("set_frame_range", frame_range, "", set_frame_range_result(cfg, host, frame_range))

set_encoding(container_format, encoder) ==
    Call("set_encoding", Str(container_format), encoder,
         set_encoding_result(cfg, container_format, encoder))

set_camera(camera) ==
    Call("set_camera", Str(camera), "", set_camera_result(cfg, host, camera))

set_h264_settings(quality, preset) ==
    Call("set_h264_settings", Str(quality), preset,
         set_h264_settings_result(cfg, quality, preset))

set_image_settings(quality) ==
    Call("set_image_settings", Scalar(quality), "", set_image_settings_result(cfg, quality))

read_resolution_width_height ==
    /\ run.pc = "idle"
    /\ obs' = Observe("get_resolution_width_height", NoArg, "", FALSE, FALSE,
                      get_resolution_width_height(cfg, host))
    /\ UNCHANGED <<cfg, host, run>>

read_start_end_frame ==
    /\ run.pc = "idle"
    /\ obs' = Observe("get_start_end_frame", NoArg, "", FALSE, FALSE,
                      get_start_end_frame(cfg, host))
    /\ UNCHANGED <<cfg, host, run>>

(***************************************************************************)
(* The user changes the scene in the host between two calls.               *)
(***************************************************************************)
HostEdit(h) ==
    /\ run.pc = "idle"
    /\ h # host
    /\ host' = h
    /\ obs' = Observe("host", NoArg, "", FALSE, FALSE, NoRet)
    /\ UNCHANGED <<cfg, run>>

host_set_render_resolution(res) == HostEdit([host EXCEPT !.render_res = res])

host_set_render_range(range) == HostEdit([host EXCEPT !.render_range = range])

host_set_playback_range(range) == HostEdit([host EXCEPT !.playback_range = range])

host_set_animation_range(range) == HostEdit([host EXCEPT !.animation_range = range])

host_create_camera(camera) == HostEdit([host EXCEPT !.cameras = @ \cup {camera}])

\* the default camera "persp" cannot be deleted; a viewport looking through a
\* deleted camera falls back to it
host_delete_camera(camera) ==
    /\ camera # "persp"
    /\ HostEdit([host EXCEPT !.cameras = @ \ {camera},
                             !.active_camera = IF @ = camera THEN "persp" ELSE @])

host_look_through(camera) ==
    /\ camera \in host.cameras
    /\ HostEdit([host EXCEPT !.active_camera = camera])

(***************************************************************************)
(* Arguments tried.                                                        *)
(***************************************************************************)
ResolutionElems == {I(800), I(0), F(600)}
ResolutionArgs ==
    {Str(p) : p \in {"Render", "HD 1080", "HD 720", "HD 540", "4K"}}
    \cup {Pair(a, b) : a, b \in ResolutionElems}
    \cup {Pair(I(800), I(-600)), Single(I(800)), Scalar(I(800))}

FrameElems == {I(1), I(10), F(4)}
FrameRangeArgs ==
    {Str(p) : p \in {"Render", "Playback", "Animation", "Timeline"}}
    \cup {Pair(a, b) : a, b \in FrameElems}
    \cup {Single(I(1)), Scalar(I(5))}

ContainerArgs == {"mov", "mp4", "Image", "avi"}
EncoderArgs == {"h264", "jpg", "png"}
CameraArgs == {NONE, "persp", "rendercam", "shotcam"}

(***************************************************************************)
(* Resolution and frame range: setters, getters and a changing scene.      *)
(***************************************************************************)
NextPresets ==
    \/ \E r \in ResolutionArgs : set_resolution(r)
    \/ \E r \in FrameRangeArgs : set_frame_range(r)
    \/ read_resolution_width_height
    \/ read_start_end_frame
    \/ \E res \in HostResolutions : host_set_render_resolution(res)
    \/ \E range \in HostRenderRanges : host_set_render_range(range)
    \/ \E range \in HostPlaybackRanges : host_set_playback_range(range)
    \/ \E range \in HostAnimationRanges : host_set_animation_range(range)

SpecPresets == Init /\ [][NextPresets]_vars

(***************************************************************************)
(* Encoding and camera setters.                                            *)
(***************************************************************************)
NextSetters ==
    \/ \E c \in ContainerArgs, e \in EncoderArgs : set_encoding(c, e)
    \/ \E cam \in CameraArgs : set_camera(cam)
    \/ \E cam \in HostCameras : host_create_camera(cam)
    \/ \E cam \in HostCameras : host_delete_camera(cam)

SpecSetters == Init /\ [][NextSetters]_vars

(***************************************************************************)
(* Encoder and image quality setters.                                      *)
(***************************************************************************)
H264QualityArgs == {"Very high", "High", "Medium", "Low", "Best"}
H264PresetArgs == H264_PRESETS \cup {"turbo"}
\* 0, 1, 100, 101, -5, 0.5, 50.5, 100.5, "high", None
ImageQualityArgs ==
    {I(0), I(1), I(100), I(101), I(-5), F(0), F(50), F(100),
     [ty |-> "str", v |-> 0], NoneVal}

NextQuality ==
    \/ \E q \in H264QualityArgs, p \in H264PresetArgs : set_h264_settings(q, p)
    \/ \E q \in ImageQualityArgs : set_image_settings(q)

SpecQuality == Init /\ [][NextQuality]_vars

(***************************************************************************)
(* execute.  A path is the sequence of its parts, so that the tokens       *)
(* {project} and {scene} can be told apart from the text around them; the  *)
(* empty string is the empty sequence.                                     *)
(***************************************************************************)
HostProjectDir == "P:/show"
\* the scene file's short name as <<base, extension>>; <<>> for an unsaved scene
HostScenes == {<<>>, <<"shot010", ".ma">>}

\* lines 428-435: the base name of the scene file, "untitled" if there is none
get_scene_name(scene) == IF scene # <<>> THEN scene[1] ELSE "untitled"

requires_ffmpeg(c) == c.container_format # "Image"

\* a validation that only asks whether the path exists
validate_ffmpeg_exists(env) == env.ffmpeg # "missing"

\* env.ffmpeg says what lies at the ffmpeg path: "file", "dir" or "missing"
validate_ffmpeg(env) == env.ffmpeg = "file"

resolve_output_directory_path(dir_path) ==
    [i \in DOMAIN dir_path |-> IF dir_path[i] = "{project}" THEN HostProjectDir ELSE dir_path[i]]

resolve_output_filename(filename, scene) ==
    [i \in DOMAIN filename |->
        IF filename[i] = "{scene}" THEN get_scene_name(scene) ELSE filename[i]]

effective_padding(padding) == IF padding <= 0 THEN DEFAULT_PADDING ELSE padding

\* the check with the caller's overwrite flag read the wrong way round
output_file_blocks_inverted(c, in) == requires_ffmpeg(c) /\ in.overwrite /\ in.output_exists

\* lines 525-529: the final output file exists and overwrite was not asked for
output_file_blocks(c, in) == requires_ffmpeg(c) /\ ~in.overwrite /\ in.output_exists

\* the camera execute records, lines 570-574
camera_to_use(c, orig_camera) ==
    IF c.camera # NONE /\ c.camera # "" THEN c.camera ELSE orig_camera

\* Why execute returns before the recorder is called; "" if it does not.
execute_abort_reason(c, h, in) ==
    IF requires_ffmpeg(c) /\ ~validate_ffmpeg(in) THEN "ffmpeg"
    ELSE IF ~in.panel THEN "viewport"
    ELSE IF in.output_dir = <<>> THEN "output_dir"
    ELSE IF in.filename = <<>> THEN "filename"
    ELSE IF output_file_blocks(c, in) THEN "exists"
    ELSE IF camera_to_use(c, h.active_camera) \notin h.cameras THEN "camera"
    ELSE ""

playblast_temp(output_dir) == output_dir \o <<"/playblast_temp">>

\* an image branch that asks for indices from zero, like the video branch
index_from_zero_always(c) == TRUE

\* lines 536 and 544
index_from_zero(c) == requires_ffmpeg(c)

\* the options handed to the recorder, lines 525-565
playblast_options(c, h, in) ==
    LET output_dir == resolve_output_directory_path(in.output_dir)
        filename == resolve_output_filename(in.filename, in.scene)
        start_end == get_start_end_frame(c, h)
    IN  [dir |-> IF requires_ffmpeg(c) THEN playblast_temp(output_dir) ELSE output_dir,
         filename |-> filename,
         widthHeight |-> get_resolution_width_height(c, h),
         startTime |-> start_end[1],
         endTime |-> start_end[2],
         forceOverwrite |-> IF requires_ffmpeg(c) THEN TRUE ELSE in.overwrite,
         compression |-> IF requires_ffmpeg(c) THEN "png" ELSE c.encoder,
         quality |-> IF requires_ffmpeg(c) THEN I(100) ELSE c.image_quality,
         indexFromZero |-> index_from_zero(c),
         framePadding |-> effective_padding(in.padding),
         showOrnaments |-> in.show_ornaments,
         viewer |-> IF requires_ffmpeg(c) THEN FALSE ELSE in.show_in_viewer]

(***************************************************************************)
(* The host recorder (cmds.playblast with format "image"): one file        *)
(* <filename>.<index>.<compression> per frame, the index zero-padded to    *)
(* framePadding digits and counted from zero when indexFromZero is set.    *)
(***************************************************************************)
RECURSIVE Digits(_)
Digits(n) == IF n < 10 THEN <<n>> ELSE Append(Digits(n \div 10), n % 10)

Pad(n, width) ==
    LET d == Digits(n)
    IN  IF Len(d) >= width THEN d ELSE [i \in 1..(width - Len(d)) |-> 0] \o d

playblast_frames(options) ==
    IF /\ isinstance_int(options.startTime)
       /\ isinstance_int(options.endTime)
       /\ 0 <= options.startTime.v
    THEN {[dir |-> options.dir, name |-> options.filename,
           digits |-> Pad(IF options.indexFromZero THEN f - options.startTime.v ELSE f,
                          options.framePadding),
           ext |-> options.compression] : f \in options.startTime.v..options.endTime.v}
    ELSE {}

\* a cleanup that leaves the viewport on the camera used for the capture
camera_left(r) == r.camera

\* line 591, in the finally clause: the camera the viewport is put back on
camera_restored(r) == r.orig_camera

\* an execute that goes on whether the recorder failed or not
continues_always(ok) == TRUE

\* lines 593-594
continues_after_playblast(ok) == ok

(***************************************************************************)
(* The encoder step.                                                       *)
(***************************************************************************)
Unit(name) == [name |-> name, fps |-> 0]
Fps(n) == [name |-> "fps", fps |-> n]

\* [ok, rate]: ok = FALSE is the RuntimeError for an unsupported unit
get_frame_rate(rate_str) ==
    CASE rate_str.name = "game" -> [ok |-> TRUE, rate |-> 15]
      [] rate_str.name = "film" -> [ok |-> TRUE, rate |-> 24]
      [] rate_str.name = "pal" -> [ok |-> TRUE, rate |-> 25]
      [] rate_str.name = "ntsc" -> [ok |-> TRUE, rate |-> 30]
      [] rate_str.name = "show" -> [ok |-> TRUE, rate |-> 48]
      [] rate_str.name = "palf" -> [ok |-> TRUE, rate |-> 50]
      [] rate_str.name = "ntscf" -> [ok |-> TRUE, rate |-> 60]
      [] rate_str.name = "fps" -> [ok |-> TRUE, rate |-> rate_str.fps]
      [] OTHER -> [ok |-> FALSE, rate |-> 0]

\* sound is "none" (no sound node), "file" (a node whose audio file exists)
\* or "no_file" (a node whose audio file does not exist).  For "no_file" the
\* function falls off its end and returns None, which the caller's tuple
\* unpacking cannot take: ok = FALSE.
get_audio_attributes(sound) ==
    IF sound = "none" THEN [ok |-> TRUE, audio_file_path |-> NONE]
    ELSE IF sound = "file" THEN [ok |-> TRUE, audio_file_path |-> "audio.wav"]
    ELSE [ok |-> FALSE, audio_file_path |-> NONE]

\* [ran, raised]: whether execute_ffmpeg_cmd was reached, whether an
\* exception left encode_h264.  With an audio file the statement at line 212
\* adds to the unbound name `ffmpeg` and raises.
encode_h264(rate_str, sound) ==
    LET frame_rate == get_frame_rate(rate_str)
        audio == get_audio_attributes(sound)
    IN  IF ~frame_rate.ok THEN [ran |-> FALSE, raised |-> TRUE]
        ELSE IF ~audio.ok THEN [ran |-> FALSE, raised |-> TRUE]
        ELSE IF audio.audio_file_path # NONE THEN [ran |-> FALSE, raised |-> TRUE]
        ELSE [ran |-> TRUE, raised |-> FALSE]

(***************************************************************************)
(* The trace of an execute call, kept in obs.ex.                           *)
(***************************************************************************)
Trace(stage, in, camera_at_start) ==
    [stage |-> stage, in |-> in, camera_at_start |-> camera_at_start,
     abort |-> "", recorder |-> FALSE, recorder_ok |-> FALSE,
     camera_during |-> NONE, index_from_zero |-> FALSE, written |-> {},
     temp_dir |-> FALSE, sound |-> "none", rate_str |-> Unit("film"),
     encoder |-> FALSE, viewer |-> FALSE]

ObserveExecute(logged, raised, ex) ==
    [op |-> "execute", arg |-> NoArg, arg2 |-> "", logged |-> logged, raised |-> raised,
     ret |-> NoRet, ex |-> ex]

\* lines 502-580: the checks, the options, the switch to the capture camera
execute_begin(in) ==
    LET reason == execute_abort_reason(cfg, host, in)
        camera == camera_to_use(cfg, host.active_camera)
        t == Trace("aborted", in, host.active_camera)
    IN  /\ run.pc = "idle"
        /\ IF reason # ""
           THEN /\ obs' = ObserveExecute(TRUE, FALSE, [t EXCEPT !.abort = reason])
                /\ UNCHANGED <<host, run>>
           ELSE /\ host' = [host EXCEPT !.active_camera = camera]
                /\ run' = [pc |-> "playblast", in |-> in,
                           orig_camera |-> host.active_camera, camera |-> camera,
                           options |-> playblast_options(cfg, host, in)]
                /\ obs' = ObserveExecute(FALSE, FALSE,
                              [t EXCEPT !.stage = "playblast", !.recorder = TRUE,
                                        !.camera_during = camera,
                                        !.index_from_zero = index_from_zero(cfg)])
        /\ UNCHANGED cfg

\* lines 582-594: the recorder returns (ok) or raises, the camera is put back.
\* What a failing recorder left on disk is not tracked.
playblast_returns(ok) ==
    LET go_on == continues_after_playblast(ok)
        encode == go_on /\ requires_ffmpeg(cfg)
    IN  /\ run.pc = "playblast"
        /\ host' = [host EXCEPT !.active_camera = camera_restored(run)]
        /\ run' = IF encode THEN [run EXCEPT !.pc = "encode"] ELSE RunIdle
        /\ obs' = ObserveExecute(~ok, FALSE,
                      [obs.ex EXCEPT !.stage = IF encode THEN "encode" ELSE "returned",
                                     !.recorder_ok = ok,
                                     !.written = IF ok THEN playblast_frames(run.options) ELSE {},
                                     !.temp_dir = ok /\ requires_ffmpeg(cfg)])
        /\ UNCHANGED cfg

\* lines 596-609: the encoder, the removal of the temporary directory, the
\* viewer.  produced: whether the encoder process wrote the output file.
\* The temporary directory holds only the png frames of this call, so
\* remove_temp_dir empties and removes it.
execute_encode(rate_str, sound, produced) ==
    LET enc == encode_h264(rate_str, sound)
        exists == produced \/ run.in.output_exists
        t == [obs.ex EXCEPT !.sound = sound, !.rate_str = rate_str]
    IN  /\ run.pc = "encode"
        /\ run' = RunIdle
        /\ obs' =
             IF cfg.encoder # "h264"
             THEN ObserveExecute(TRUE, FALSE,
                      [t EXCEPT !.stage = "returned", !.temp_dir = FALSE])
             ELSE IF enc.raised
             THEN ObserveExecute(obs.logged, TRUE, [t EXCEPT !.stage = "raised"])
             ELSE ObserveExecute(run.in.show_in_viewer /\ ~exists, FALSE,
                      [t EXCEPT !.stage = "returned", !.encoder = enc.ran,
                                !.temp_dir = FALSE,
                                !.viewer = run.in.show_in_viewer /\ exists])
        /\ UNCHANGED <<cfg, host>>

\* every combination of the inputs the checks read, with padding 4; for calls
\* that pass the checks, the paddings 0 (replaced by the default) and 2; and
\* calls whose paths are tokens, in a saved or unsaved scene, with a file or a
\* directory at the ffmpeg path
ExecuteInputs ==
    [output_dir : {<<>>, <<"{project}", "/out">>},
     filename : {<<>>, <<"output">>},
     padding : {4},
     show_ornaments : {TRUE},
     show_in_viewer : BOOLEAN,
     overwrite : BOOLEAN,
     ffmpeg : {"file", "missing"},
     panel : BOOLEAN,
     output_exists : BOOLEAN,
     scene : {<<"shot010", ".ma">>}]
    \cup
    [output_dir : {<<"{project}", "/out">>},
     filename : {<<"output">>},
     padding : {0, 2},
     show_ornaments : {TRUE},
     show_in_viewer : BOOLEAN,
     overwrite : BOOLEAN,
     ffmpeg : {"file"},
     panel : {TRUE},
     output_exists : {FALSE},
     scene : {<<"shot010", ".ma">>}]
    \cup
    [output_dir : {<<"{project}">>},
     filename : {<<"{scene}">>, <<"{scene}", "_final">>},
     padding : {4},
     show_ornaments : {TRUE},
     show_in_viewer : {TRUE},
     overwrite : {FALSE},
     ffmpeg : {"file", "dir"},
     panel : {TRUE},
     output_exists : {FALSE},
     scene : HostScenes]

RateStrings == {Unit("film"), Fps(120), Unit("sec")}
SoundNodes == {"none", "file", "no_file"}
ExecuteFrameRanges == {Pair(I(1), I(10)), Str("Render")}
ExecuteContainers == {"mp4", "mov", "Image"}
ExecuteEncoders == {"h264", "png"}
ExecuteCameras == {NONE, "rendercam"}

NextExecute ==
    \/ \E c \in ExecuteContainers, e \in ExecuteEncoders : set_encoding(c, e)
    \/ \E cam \in ExecuteCameras : set_camera(cam)
    \/ \E r \in ExecuteFrameRanges : set_frame_range(r)
    \/ \E cam \in HostCameras : host_create_camera(cam)
    \/ \E cam \in HostCameras : host_delete_camera(cam)
    \/ \E cam \in HostCameras : host_look_through(cam)
    \/ \E in \in ExecuteInputs : execute_begin(in)
    \/ \E ok \in BOOLEAN : playblast_returns(ok)
    \/ \E r \in RateStrings, s \in SoundNodes, produced \in BOOLEAN : execute_encode(r, s, produced)

SpecExecute == Init /\ [][NextExecute]_vars

Next ==
    \/ NextPresets
    \/ NextSetters
    \/ NextQuality
    \/ NextExecute

Spec == Init /\ [][Next]_vars

(***************************************************************************)
(* Properties of the setters and getters.                                  *)
(***************************************************************************)
InTable(container_format, encoder) ==
    /\ container_format \in DOMAIN VIDEO_ENCODER_LOOKUP
    /\ encoder \in VIDEO_ENCODER_LOOKUP[container_format]

\* C1: a set_encoding call with a pair that is not in the container->encoder
\* table logs an error, raises nothing and leaves the stored pair as it was
\* (so the stored pair is always in the table).
C1_RejectedEncodingKeepsPair ==
    [][(obs'.op = "set_encoding" /\ ~InTable(obs'.arg.s, obs'.arg2))
        => /\ obs'.logged
           /\ ~obs'.raised
           /\ cfg'.container_format = cfg.container_format
           /\ cfg'.encoder = cfg.encoder]_vars

InvalidResolutionPair(r) ==
    /\ r.kind = "pair"
    /\ \/ ~isinstance_int(r.a)
       \/ ~isinstance_int(r.b)
       \/ r.a.v <= 0
       \/ r.b.v <= 0

\* C2: a set_resolution call with a non-positive or non-integer pair logs an
\* error, and get_resolution_width_height returns the same value after the
\* call as before it.
C2_RejectedResolutionKeepsValue ==
    [][(obs'.op = "set_resolution" /\ InvalidResolutionPair(obs'.arg))
        => /\ obs'.logged
           /\ get_resolution_width_height(cfg', host')
                = get_resolution_width_height(cfg, host)]_vars

\* C8: with a named preset configured, a read returns what the host state
\* gives at the moment of the read: the host's render resolution for
\* "Render", the host's render, playback or animation range for the frame
\* range presets, whatever the setter saw.
C8_PresetReadsLiveHostState ==
    /\ (obs.op = "get_resolution_width_height" /\ cfg.resolution_preset = "Render")
         => obs.ret = host.render_res
    /\ (obs.op = "get_resolution_width_height" /\ cfg.resolution_preset # NONE
          /\ cfg.resolution_preset # "Render")
         => obs.ret = RESOLUTION_LOOKUP[cfg.resolution_preset]
    /\ (obs.op = "get_start_end_frame" /\ cfg.frame_range_preset = "Render")
         => obs.ret = host.render_range
    /\ (obs.op = "get_start_end_frame" /\ cfg.frame_range_preset = "Playback")
         => obs.ret = <<int(host.playback_range[1]), int(host.playback_range[2])>>
    /\ (obs.op = "get_start_end_frame" /\ cfg.frame_range_preset = "Animation")
         => obs.ret = <<int(host.animation_range[1]), int(host.animation_range[2])>>

\* a read under the "Render" preset after the host's render resolution has
\* moved away from what the setter saw
C8_ReadAfterHostChange ==
    /\ obs.op = "get_resolution_width_height"
    /\ cfg.resolution_preset = "Render"
    /\ cfg.width_height # host.render_res
    /\ obs.ret = host.render_res

OrderableIntegers(r) ==
    /\ isinstance_int(r.a)
    /\ isinstance_int(r.b)
    /\ r.a.v <= r.b.v

\* C9: set_frame_range with an explicit pair stores it verbatim if it is a
\* pair of integers with start <= end; any other pair is rejected with a
\* logged error and the stored frame range is left as it was.
C9_FrameRangePairValidated ==
    [][(obs'.op = "set_frame_range" /\ obs'.arg.kind = "pair")
        => IF OrderableIntegers(obs'.arg)
           THEN /\ cfg'.frame_range_preset = NONE
                /\ cfg'.start_frame = obs'.arg.a
                /\ cfg'.end_frame = obs'.arg.b
           ELSE /\ obs'.logged
                /\ cfg'.frame_range_preset = cfg.frame_range_preset
                /\ cfg'.start_frame = cfg.start_frame
                /\ cfg'.end_frame = cfg.end_frame]_vars

UnknownCamera(camera) == camera # NONE /\ camera \notin host.cameras

VideoContainer == cfg.container_format \in {"mov", "mp4"}

\* the last step taken belongs to an execute call, and that call is over
ExecuteOver == obs.op = "execute" /\ run.pc = "idle"

\* C3: for a video container, execute with overwrite=False while the final
\* output file exists aborts: the recorder and the encoder are not invoked
\* and the active viewport camera is the one it was.
C3_ExistingOutputAborts ==
    (obs.op = "execute" /\ VideoContainer
       /\ ~obs.ex.in.overwrite /\ obs.ex.in.output_exists)
      => /\ obs.ex.stage = "aborted"
         /\ run.pc = "idle"
         /\ ~obs.ex.recorder
         /\ ~obs.ex.encoder
         /\ host.active_camera = obs.ex.camera_at_start

\* an execute call that passed every earlier check and stopped at the
\* existing output file
C3_StoppedAtExistingOutput ==
    /\ obs.op = "execute"
    /\ VideoContainer
    /\ ~obs.ex.in.overwrite
    /\ obs.ex.in.output_exists
    /\ obs.ex.abort = "exists"

\* C4: while the recorder runs, the active viewport camera is the configured
\* camera (the originally active one if none is configured); once the
\* recorder has returned or raised, it is again the camera that was active
\* when execute started.
C4_CameraSwitchedAndRestored ==
    /\ (obs.op = "execute" /\ run.pc = "playblast")
         => host.active_camera =
              (IF cfg.camera # NONE THEN cfg.camera ELSE obs.ex.camera_at_start)
    /\ (obs.op = "execute" /\ obs.ex.recorder /\ run.pc # "playblast")
         => host.active_camera = obs.ex.camera_at_start

\* the recorder raised while the viewport was on a configured camera other
\* than the one active at the start, and the call is over
C4_RestoredAfterFailure ==
    /\ ExecuteOver
    /\ obs.ex.recorder
    /\ ~obs.ex.recorder_ok
    /\ obs.ex.camera_during # obs.ex.camera_at_start
    /\ obs.ex.camera_during = cfg.camera

ImagePng1To10 ==
    /\ ExecuteOver
    /\ obs.ex.recorder_ok
    /\ cfg.container_format = "Image"
    /\ cfg.encoder = "png"
    /\ cfg.frame_range_preset = NONE
    /\ cfg.start_frame = I(1)
    /\ cfg.end_frame = I(10)
    /\ obs.ex.in.padding = 4
    /\ obs.ex.in.filename = <<"output">>

OutputPng(digits) ==
    [dir |-> resolve_output_directory_path(obs.ex.in.output_dir),
     name |-> <<"output">>, digits |-> digits, ext |-> "png"]

\* C5 as stated: Image/png, frame range (1, 10), padding 4: execute writes
\* exactly output.0000.png .. output.0009.png in the output directory, the
\* recorder being asked to index from zero, with no encoder call and no
\* temporary directory.
C5_TenFilesFromZero ==
    ImagePng1To10
      => /\ obs.ex.written = {OutputPng(<<0, 0, 0, i>>) : i \in 0..9}
         /\ obs.ex.index_from_zero
         /\ ~obs.ex.encoder
         /\ ~obs.ex.temp_dir

\* C5 amended: the ten files are output.0001.png .. output.0010.png, named
\* by frame number: on the image path the recorder is asked not to index
\* from zero.
C5_TenFilesByFrameNumber ==
    ImagePng1To10
      => /\ obs.ex.written =
              {OutputPng(<<0, 0, 0, i>>) : i \in 1..9} \cup {OutputPng(<<0, 0, 1, 0>>)}
         /\ Cardinality(obs.ex.written) = 10
         /\ ~obs.ex.index_from_zero
         /\ ~obs.ex.encoder
         /\ ~obs.ex.temp_dir

\* the Image/png capture of frames 1..10 with padding 4 has been made
C5_ImageSequenceWritten ==
    ImagePng1To10 /\ obs.ex.written # {}

\* C6: for a video container (with an encoder of the table and a supported
\* time unit), an execute call whose recorder succeeded has run the encoder
\* and removed the temporary directory by the time it is over, whatever the
\* sound node.
C6_EncodedAndCleanedUp ==
    (ExecuteOver /\ VideoContainer /\ obs.ex.recorder_ok
       /\ InTable(cfg.container_format, cfg.encoder)
       /\ get_frame_rate(obs.ex.rate_str).ok)
      => /\ obs.ex.stage = "returned"
         /\ obs.ex.encoder
         /\ ~obs.ex.temp_dir

\* C7: if the recorder raises, execute logs an error and returns without
\* raising; the encoder is not invoked and the viewer is not opened.
C7_RecorderFailureAborts ==
    (obs.op = "execute" /\ obs.ex.recorder /\ run.pc # "playblast" /\ ~obs.ex.recorder_ok)
      => /\ run.pc = "idle"
         /\ obs.ex.stage = "returned"
         /\ obs.logged
         /\ ~obs.raised
         /\ ~obs.ex.encoder
         /\ ~obs.ex.viewer

\* the recorder raised in a call for a video container that asked for the
\* viewer
C7_RecorderRaised ==
    /\ ExecuteOver
    /\ VideoContainer
    /\ obs.ex.recorder
    /\ ~obs.ex.recorder_ok
    /\ obs.ex.in.show_in_viewer

\* a path with every part that is `token` replaced by `value`
Substituted(path, token, value) ==
    [i \in DOMAIN path |-> IF path[i] = token THEN value ELSE path[i]]

\* the string a path stands for is empty
EmptyPath(path) == \A i \in DOMAIN path : path[i] = ""

SceneNameOf(scene) == IF scene = <<>> THEN "untitled" ELSE scene[1]

\* the preconditions of a capture, on the inputs of the observed call
PreconditionsHold ==
    /\ cfg.container_format # "Image" => obs.ex.in.ffmpeg = "file"
    /\ obs.ex.in.panel
    /\ ~EmptyPath(Substituted(obs.ex.in.output_dir, "{project}", HostProjectDir))
    /\ ~EmptyPath(Substituted(obs.ex.in.filename, "{scene}", SceneNameOf(obs.ex.in.scene)))

\* C11: execute invokes the recorder only if the encoder path (when the
\* container needs the encoder) is an existing regular file, a viewport
\* panel is active and the output directory and filename are non-empty after
\* token substitution; otherwise it logs an error and returns with no
\* recorder call, no encoder call and the active camera unchanged.
C11_RecorderOnlyWhenPreconditionsHold ==
    obs.op = "execute"
      => /\ obs.ex.recorder => PreconditionsHold
         /\ ~PreconditionsHold
              => /\ obs.ex.stage = "aborted"
                 /\ run.pc = "idle"
                 /\ obs.logged
                 /\ ~obs.raised
                 /\ ~obs.ex.recorder
                 /\ ~obs.ex.encoder
                 /\ host.active_camera = obs.ex.camera_at_start

\* execute for a video container stopped because a directory lies at the
\* encoder path
C11_StoppedAtEncoderDirectory ==
    /\ obs.op = "execute"
    /\ cfg.container_format # "Image"
    /\ obs.ex.in.ffmpeg = "dir"
    /\ obs.ex.abort = "ffmpeg"

(***************************************************************************)
(* Properties of the quality setters.                                      *)
(***************************************************************************)
\* C12: after construction and any sequence of set_h264_settings and
\* set_image_settings calls, the stored h264 quality is one of the four
\* quality names, the stored h264 preset is one of the listed presets and
\* the stored image quality is an integer in 1..100.
C12_StoredQualitySettingsValid ==
    /\ cfg.h264_quality \in {"Very high", "High", "Medium", "Low"}
    /\ cfg.h264_preset \in {"veryslow", "slow", "medium", "fast", "faster", "ultrafast"}
    /\ isinstance_int(cfg.image_quality)
    /\ cfg.image_quality.v \in 1..100

\* C12, second part: a set_h264_settings call in which the quality or the
\* preset is invalid changes neither stored value.
C12_InvalidH264KeepsBoth ==
    [][(obs'.op = "set_h264_settings"
          /\ (obs'.arg.s \notin {"Very high", "High", "Medium", "Low"}
                \/ obs'.arg2 \notin {"veryslow", "slow", "medium", "fast", "faster", "ultrafast"}))
        => /\ obs'.logged
           /\ cfg'.h264_quality = cfg.h264_quality
           /\ cfg'.h264_preset = cfg.h264_preset]_vars

====
